---------------------------- MODULE Spec2Model ----------------------------
(***************************************************************************)
(* Model of thudl.py: the traversal-and-transfer pipeline of the Tsinghua  *)
(* Cloud share downloader (main, verify_password, dfs_search_files,        *)
(* is_match, download, download_single_file).                              *)
(*                                                                         *)
(* Strings are sequences of one-character strings.  The remote service,    *)
(* the local file system and the operator are the environment: each of     *)
(* their answers is chosen with \E inside the action that asks for it.     *)
(***************************************************************************)
EXTENDS Integers, Sequences, FiniteSets, TLC

(***************************************************************************)
(* Bounds of the model.                                                    *)
(***************************************************************************)
\* depth of the nested-directory chain of ChainTree
MaxDepth == 2
\* bytes by which a remote file may have grown between listing and download
MaxDrift == 1
\* length of the body of a non-success HTTP answer (an error page)
ErrBodyLen == 7

\* chunk_size of resp.iter_content
ChunkSize == 1024

\* Python's None (distinct from every string, which has only 1-char items)
None == <<"<None>">>

(***************************************************************************)
(* Strings.                                                                *)
(***************************************************************************)
\* code point of a character (str comparison in list.sort)
Ord(c) ==
    CASE c = " " -> 32
      [] c = "%" -> 37
      [] c = "*" -> 42
      [] c = "." -> 46
      [] c = "/" -> 47
      [] c = "0" -> 48
      [] c = "2" -> 50
      [] c = "?" -> 63
      [] c = "a" -> 97
      [] c = "b" -> 98
      [] c = "d" -> 100
      [] c = "m" -> 109
      [] c = "p" -> 112
      [] c = "s" -> 115
      [] c = "t" -> 116
      [] OTHER -> 0

\* s < t for Python strings: lexicographic by code point
RECURSIVE StrLess(_, _)
StrLess(s, t) ==
    IF t = <<>> THEN FALSE
    ELSE IF s = <<>> THEN TRUE
    ELSE IF Head(s) = Head(t) THEN StrLess(Tail(s), Tail(t))
    ELSE Ord(Head(s)) < Ord(Head(t))

\* characters urllib.parse.quote leaves alone (letters, digits, "_.-~", "/")
QuoteSafe == {"/", ".", "a", "b", "d", "m", "p", "s", "t", "0", "2"}

\* urllib.parse.quote(path): percent-encode every unsafe character
RECURSIVE quote(_)
quote(s) ==
    IF s = <<>> THEN <<>>
    ELSE IF Head(s) \in QuoteSafe THEN <<Head(s)>> \o quote(Tail(s))
    ELSE IF Head(s) = " " THEN <<"%", "2", "0">> \o quote(Tail(s))
    ELSE <<"%", "?", "?">> \o quote(Tail(s))

\* the server's decoding of the path query parameter
RECURSIVE unquote(_)
unquote(s) ==
    IF s = <<>> THEN <<>>
    ELSE IF Len(s) >= 3 /\ SubSeq(s, 1, 3) = <<"%", "2", "0">>
         THEN <<" ">> \o unquote(SubSeq(s, 4, Len(s)))
    ELSE <<Head(s)>> \o unquote(Tail(s))

(***************************************************************************)
(* fnmatch.fnmatch on POSIX (normcase is the identity): "*" matches any    *)
(* run of characters, "/" included; "?" any one character; "[seq]" and     *)
(* "[!seq]" one character in / not in seq; a "[" that is never closed is   *)
(* a literal.  Ranges inside brackets are not modelled.                    *)
(***************************************************************************)
\* index of the "]" closing the bracket that opens at p[1], or 0
ClassEnd(p) ==
    LET from == IF Len(p) >= 2 /\ p[2] = "!" THEN 3 ELSE 2
        \* a "]" right after "[" or "[!" is a member, not the end
        cands == {j \in (from + 1)..Len(p) : p[j] = "]"}
    IN  IF cands = {} THEN 0
        ELSE CHOOSE j \in cands : \A k \in cands : j <= k

RECURSIVE fnmatch(_, _)
fnmatch(s, p) ==
    IF p = <<>> THEN s = <<>>
    ELSE IF Head(p) = "*"
         THEN fnmatch(s, Tail(p)) \/ (s # <<>> /\ fnmatch(Tail(s), p))
    ELSE IF Head(p) = "?"
         THEN s # <<>> /\ fnmatch(Tail(s), Tail(p))
    ELSE IF Head(p) = "[" /\ ClassEnd(p) # 0
         THEN LET e   == ClassEnd(p)
                  neg == p[2] = "!"
                  mem == {p[j] : j \in (IF neg THEN 3 ELSE 2)..(e - 1)}
              IN  /\ s # <<>>
                  /\ (Head(s) \in mem) # neg
                  /\ fnmatch(Tail(s), SubSeq(p, e + 1, Len(p)))
    ELSE s # <<>> /\ Head(s) = Head(p) /\ fnmatch(Tail(s), Tail(p))

\* is_match: drop the first character of the path, then glob-match
is_match(file_path, pattern) ==
    pattern = None \/ fnmatch(Tail(file_path), pattern)

(***************************************************************************)
(* Remote trees: a function from a folder path to the dirent_list the      *)
(* listing API returns for it.                                             *)
(***************************************************************************)
File(p, sz) == [is_dir |-> FALSE, file_path |-> p, folder_path |-> <<>>, size |-> sz]
Dir(p)      == [is_dir |-> TRUE,  file_path |-> <<>>, folder_path |-> p, size |-> 0]

Root == <<"/">>

\* scenario A of the specification: /a.t (10), /s/ with /s/b.t (20)
TreeA ==
    ( Root :> << File(<<"/","a",".","t">>, 10), Dir(<<"/","s","/">>) >> ) @@
    ( <<"/","s","/">> :> << File(<<"/","s","/","b",".","t">>, 20) >> )

\* unsorted listing, names without a dot, a folder name that needs quoting,
\* a file longer than one chunk
TreeB ==
    ( Root :> << File(<<"/","m">>, 1500),
                 Dir(<<"/","s"," ","d","/">>),
                 File(<<"/","a",".","t">>, 10) >> ) @@
    ( <<"/","s"," ","d","/">> :> << File(<<"/","s"," ","d","/","m">>, 5) >> )

\* folders only
TreeEmpty ==
    ( Root :> << Dir(<<"/","s","/">>) >> ) @@
    ( <<"/","s","/">> :> << >> )

\* the folder path /s/s/.../ with d levels
RECURSIVE ChainPath(_)
ChainPath(d) == IF d = 0 THEN Root ELSE ChainPath(d - 1) \o <<"s", "/">>

\* a chain of MaxDepth nested folders with one file at the bottom
ChainTree ==
    [ p \in {ChainPath(d) : d \in 0..MaxDepth} |->
        IF p = ChainPath(MaxDepth)
        THEN << File(p \o <<"b",".","t">>, 20) >>
        ELSE << Dir(p \o <<"s","/">>) >> ]

Trees == {TreeA, TreeB, TreeEmpty, ChainTree}

\* every entry some listing of the tree returns
Entries(t) == UNION {{t[d][k] : k \in 1..Len(t[d])} : d \in DOMAIN t}
FilesOf(t) == {e \in Entries(t) : ~e.is_dir}

\* the default of --pattern in main
DefaultPattern == <<"*", ".", "*">>

\* patterns an operator may pass
Patterns ==
    { <<"*">>, <<"*", ".", "t">>, <<"?", ".", "t">>, <<"s", "/", "*">>,
      <<"[", "a", "m", "]", "*">>, <<"*", ".", "p">> }


\* answers an operator may type at "Start downloading? [y/n]"
Answers == {"y", "n", "Y", "yes", ""}

VARIABLES
    pc,            \* position of the run
    caller,        \* "main": the command; "dfs": a direct call of dfs_search_files
    tree,          \* the remote tree behind the share link
    pattern_given, \* whether --pattern was passed
    match_pattern, \* the pattern handed to dfs_search_files
    stack,         \* the activation records of dfs_search_files, innermost last
    listReqs,      \* the encoded paths of the listing requests, in order
    filelist,      \* the walker's result; in main, the sorted manifest
    exc,           \* the exception that ended the run, or "none"
    shown,         \* print_filelist has printed the manifest
    asked,         \* the confirmation prompt was shown
    key,           \* the operator's answer
    i,             \* 1-based position of the download loop
    attempted,     \* positions whose loop body has started
    dlReqs,        \* positions whose download request was sent
    total_size,    \* pbar.total
    n,             \* pbar.n, the bytes accounted so far
    resp,          \* the response of the file in transfer, or None
    openResps,     \* positions whose response stream is still open
    openFiles,     \* positions whose local file handle is still open
    mkdirs,        \* directories created under save_dir
    disk,          \* files under save_dir: relative path -> what was written
    errLog,        \* positions logged by logging.error
    finished,      \* "Download finished." was logged
    stable,        \* every body streamed so far had its listed size
    statuses,      \* history: the HTTP status answered for each position
    failures       \* history: what the environment refused, and for which position

walkVars == <<stack, listReqs, filelist>>
mainVars == <<shown, asked, key>>
histVars == <<statuses, failures>>
dlVars   == <<i, attempted, dlReqs, total_size, n, resp, openResps, openFiles,
              mkdirs, disk, errLog, finished, stable>>
vars     == <<pc, caller, tree, pattern_given, match_pattern, exc,
              walkVars, mainVars, dlVars, histVars>>

\* the environment refused a request made for position pos (0: before the
\* download loop)
Failed(pos, kind) == failures' = failures \cup {[pos |-> pos, kind |-> kind]}

(***************************************************************************)
(* Helpers.                                                                *)
(***************************************************************************)
\* a fresh activation of dfs_search_files(share_key, path, pattern)
Frame(path) ==
    [path |-> path, listed |-> FALSE, objects |-> <<>>, k |-> 1, filelist |-> <<>>]

Top == stack[Len(stack)]

\* stack with its innermost record replaced
SetTop(f) == [stack EXCEPT ![Len(stack)] = f]

\* insert e into a list sorted by file_path, after every entry not greater
RECURSIVE Insert(_, _)
Insert(e, l) ==
    IF l = <<>> THEN <<e>>
    ELSE IF StrLess(e.file_path, Head(l).file_path) THEN <<e>> \o l
    ELSE <<Head(l)>> \o Insert(e, Tail(l))

\* filelist.sort(key=lambda x: x["file_path"]): a stable sort
RECURSIVE SortByPath(_)
SortByPath(l) ==
    IF l = <<>> THEN <<>>
    ELSE Insert(l[Len(l)], SortByPath(SubSeq(l, 1, Len(l) - 1)))

\* sum([file["size"] for file in filelist])
RECURSIVE SumSizes(_)
SumSizes(l) == IF l = <<>> THEN 0 ELSE Head(l).size + SumSizes(Tail(l))

\* os.path.dirname of a relative path: what precedes the last "/"
Dirname(p) ==
    LET slashes == {j \in 1..Len(p) : p[j] = "/"}
    IN  IF slashes = {} THEN <<>>
        ELSE SubSeq(p, 1, (CHOOSE j \in slashes : \A m \in slashes : m <= j) - 1)

Min(a, b) == IF a < b THEN a ELSE b

(***************************************************************************)
(* Initial states.                                                         *)
(***************************************************************************)
InitCommon ==
    /\ tree \in Trees
    /\ listReqs = <<>>
    /\ filelist = <<>>
    /\ exc = "none"
    /\ shown = FALSE
    /\ asked = FALSE
    /\ key = ""
    /\ i = 0
    /\ attempted = {}
    /\ dlReqs = {}
    /\ total_size = 0
    /\ n = 0
    /\ resp = None
    /\ openResps = {}
    /\ openFiles = {}
    /\ mkdirs = {}
    /\ disk = << >>
    /\ errLog = {}
    /\ finished = FALSE
    /\ stable = TRUE
    /\ statuses = {}
    /\ failures = {}

\* the command starts: typer fills match_pattern with its default when
\* --pattern is absent
Init ==
    /\ InitCommon
    /\ pc = "main"
    /\ caller = "main"
    /\ pattern_given \in BOOLEAN
    /\ match_pattern \in (IF pattern_given THEN Patterns ELSE {DefaultPattern})
    /\ stack = <<>>

\* dfs_search_files called on its own, pattern defaulting to None
InitWalk ==
    /\ InitCommon
    /\ pc = "walk"
    /\ caller = "dfs"
    /\ pattern_given \in BOOLEAN
    /\ match_pattern \in (IF pattern_given THEN Patterns \cup {DefaultPattern} ELSE {None})
    /\ stack = <<Frame(Root)>>

(***************************************************************************)
(* dfs_search_files.                                                       *)
(***************************************************************************)
\* the request for the directory listing and r.json()['dirent_list'];
\* a failed request, a body that is not JSON and a body without
\* dirent_list all raise, and nothing on the way up catches
\* a failed listing taken for an empty folder
ListFailsSwallowed ==
    /\ stack' = SetTop([Top EXCEPT !.listed = TRUE, !.objects = <<>>])
    /\ UNCHANGED <<pc, exc>>

\* the exception of a failed listing leaves every activation and main
ListFails ==
    /\ stack' = <<>>
    /\ exc' = "ListingError"
    /\ pc' = "failed"

DfsList ==
    /\ pc = "walk"
    /\ stack # <<>>
    /\ ~Top.listed
    /\ LET encoded_path == quote(Top.path) IN
       /\ listReqs' = Append(listReqs, encoded_path)
       /\ \E ok \in BOOLEAN :
            IF ok
            THEN /\ stack' = SetTop([Top EXCEPT !.listed = TRUE,
                                                !.objects = tree[unquote(encoded_path)]])
                 /\ UNCHANGED <<pc, exc, failures>>
            ELSE /\ ListFails
                 /\ Failed(0, "listing")
    /\ UNCHANGED <<caller, tree, pattern_given, match_pattern, filelist, mainVars, dlVars,
                   statuses>>

\* the loop body with every file appended, matching or not
DfsEntryNoFilter(f, obj) ==
    IF obj.is_dir
    THEN Append(SetTop(f), Frame(obj.folder_path))
    ELSE SetTop([f EXCEPT !.k = @ + 1, !.filelist = Append(@, obj)])

\* one pass of "for obj in objects": recurse into a folder, append a
\* matching file, skip any other file
DfsEntry(f, obj) ==
    IF obj.is_dir
    THEN Append(SetTop(f), Frame(obj.folder_path))
    ELSE IF is_match(obj.file_path, match_pattern)
         THEN SetTop([f EXCEPT !.k = @ + 1, !.filelist = Append(@, obj)])
         ELSE SetTop([f EXCEPT !.k = @ + 1])

DfsStep ==
    /\ pc = "walk"
    /\ stack # <<>>
    /\ Top.listed
    /\ Top.k <= Len(Top.objects)
    /\ stack' = DfsEntry(Top, Top.objects[Top.k])
    /\ UNCHANGED <<pc, caller, tree, pattern_given, match_pattern, listReqs, filelist,
                   exc, mainVars, dlVars, histVars>>

\* "return filelist".  An inner activation hands its list to
\* filelist.extend of the caller's loop.  The outermost one returns to its
\* caller: main sorts the list, stops on an empty one ("No file found.")
\* and otherwise prints it and waits at the prompt.
\* the caller's loop going on without the inner activation's result
ReturnToDropped(parent, found) == [parent EXCEPT !.k = @ + 1]

\* filelist.extend(dfs_search_files(...)) and the loop's next pass
ReturnTo(parent, found) == [parent EXCEPT !.k = @ + 1, !.filelist = @ \o found]

DfsReturn ==
    /\ pc = "walk"
    /\ stack # <<>>
    /\ Top.listed
    /\ Top.k > Len(Top.objects)
    /\ IF Len(stack) > 1
       THEN /\ stack' = [SubSeq(stack, 1, Len(stack) - 1) EXCEPT ![Len(stack) - 1] =
                            ReturnTo(stack[Len(stack) - 1], Top.filelist)]
            /\ UNCHANGED <<pc, filelist, shown>>
       ELSE /\ stack' = <<>>
            /\ IF caller = "dfs"
               THEN /\ filelist' = Top.filelist
                    /\ pc' = "walked"
                    /\ UNCHANGED shown
               ELSE /\ filelist' = SortByPath(Top.filelist)
                    /\ IF filelist' = <<>>
                       THEN pc' = "done" /\ UNCHANGED shown
                       ELSE pc' = "confirm" /\ shown' = TRUE
    /\ UNCHANGED <<caller, tree, pattern_given, match_pattern, listReqs, exc,
                   asked, key, dlVars, histVars>>

NextWalk == DfsList \/ DfsStep \/ DfsReturn

WalkSpec == InitWalk /\ [][NextWalk]_vars

\* the walk is sequential code: it takes its next step whenever it has one
FairWalkSpec == WalkSpec /\ WF_vars(NextWalk)


(***************************************************************************)
(* main, up to the call of download.                                       *)
(***************************************************************************)
\* get_share_key: a link without the fixed prefix raises ValueError
GetShareKey ==
    /\ pc = "main"
    /\ \E prefixed \in BOOLEAN :
         IF prefixed
         THEN pc' = "verify" /\ UNCHANGED exc
         ELSE pc' = "failed" /\ exc' = "InvalidLink"
    /\ UNCHANGED <<caller, tree, pattern_given, match_pattern, walkVars, mainVars, dlVars,
                   histVars>>

\* verify_password, then main's call of dfs_search_files at "/".
\* page: what the GET of the share page gives; rejected: the POST's answer
\* contains "Please enter a correct password".
VerifyPassword ==
    /\ pc = "verify"
    /\ \E page \in {"unreachable", "public", "protected"}, rejected \in BOOLEAN :
         IF page = "unreachable"
         THEN /\ pc' = "failed" /\ exc' = "ConnectionError"
              /\ UNCHANGED <<stack, failures>>
         ELSE IF page = "protected" /\ rejected
         THEN /\ pc' = "failed" /\ exc' = "WrongPassword"
              /\ Failed(0, "password")
              /\ UNCHANGED stack
         ELSE /\ pc' = "walk" /\ stack' = <<Frame(Root)>>
              /\ UNCHANGED <<exc, failures>>
    /\ UNCHANGED <<caller, tree, pattern_given, match_pattern, listReqs, filelist,
                   mainVars, dlVars, statuses>>

\* the confirmation test with any answer starting the download
ApprovedAny(answer) == TRUE

\* "if key != 'y': return"
Approved(answer) == answer = "y"

\* input("Start downloading? [y/n]") and what follows an approval: the
\* save directory (the Downloads folder must exist when --output is
\* absent), get_root_dir (root_dir[0] raises when the page has no title),
\* and the head of download: total_size and the progress bar.
Confirm ==
    /\ pc = "confirm"
    /\ asked' = TRUE
    /\ \E answer \in Answers :
         /\ key' = answer
         /\ IF ~Approved(answer)
            THEN pc' = "done" /\ UNCHANGED <<exc, i, total_size>>
            ELSE \E output \in BOOLEAN, downloads \in BOOLEAN,
                    title \in {"unreachable", "absent", "found"} :
                   IF ~output /\ ~downloads
                   THEN pc' = "failed" /\ exc' = "AssertionError" /\ UNCHANGED <<i, total_size>>
                   ELSE IF title = "unreachable"
                   THEN pc' = "failed" /\ exc' = "ConnectionError" /\ UNCHANGED <<i, total_size>>
                   ELSE IF title = "absent"
                   THEN pc' = "failed" /\ exc' = "IndexError" /\ UNCHANGED <<i, total_size>>
                   ELSE /\ pc' = "dl_loop"
                        /\ i' = 1
                        /\ total_size' = SumSizes(filelist)
                        /\ UNCHANGED exc
    /\ UNCHANGED <<caller, tree, pattern_given, match_pattern, walkVars, shown,
                   attempted, dlReqs, n, resp, openResps, openFiles, mkdirs, disk,
                   errLog, finished, stable, histVars>>

(***************************************************************************)
(* download and download_single_file.                                      *)
(***************************************************************************)
\* the path of the file in transfer, relative to save_dir
RelPath == Tail(filelist[i].file_path)

\* the except clause of the loop: log the error, go on with the next file
Caught(kind) ==
    /\ Failed(i, kind)
    /\ errLog' = errLog \cup {i}
    /\ i' = i + 1
    /\ resp' = None
    /\ pc' = "dl_loop"

\* the head of "for i, file in enumerate(filelist)" with os.makedirs, which
\* stands before the try; past the last file, pbar.close() and
\* "Download finished."
DlNext ==
    /\ pc = "dl_loop"
    /\ IF i > Len(filelist)
       THEN /\ finished' = TRUE
            /\ pc' = "done"
            /\ UNCHANGED <<attempted, mkdirs, exc, failures>>
       ELSE /\ attempted' = attempted \cup {i}
            /\ \E made \in BOOLEAN :
                 IF made
                 THEN /\ mkdirs' = mkdirs \cup {Dirname(RelPath)}
                      /\ pc' = "dl_get"
                      /\ UNCHANGED <<exc, failures>>
                 ELSE /\ pc' = "failed"
                      /\ exc' = "OSError"
                      /\ Failed(i, "makedirs")
                      /\ UNCHANGED mkdirs
            /\ UNCHANGED finished
    /\ UNCHANGED <<caller, tree, pattern_given, match_pattern, walkVars, mainVars,
                   i, dlReqs, total_size, n, resp, openResps, openFiles, disk,
                   errLog, stable, statuses>>

\* sess.get(url, stream=True): raises when the server cannot be reached;
\* any answer, whatever its status, comes back as a response whose body
\* is yet to be read
DlGet ==
    /\ pc = "dl_get"
    /\ dlReqs' = dlReqs \cup {i}
    /\ \/ /\ Caught("get")
          /\ UNCHANGED <<openResps, stable, statuses>>
       \/ \E status \in {200, 404}, drift \in 0..MaxDrift :
            LET body == IF status = 200 THEN filelist[i].size + drift ELSE ErrBodyLen IN
            /\ status = 404 => drift = 0
            /\ resp' = [status |-> status, remaining |-> body]
            /\ statuses' = statuses \cup {[pos |-> i, status |-> status]}
            /\ openResps' = openResps \cup {i}
            /\ stable' = (stable /\ body = filelist[i].size)
            /\ pc' = "dl_open"
            /\ UNCHANGED <<i, errLog, failures>>
    /\ UNCHANGED <<caller, tree, pattern_given, match_pattern, exc, walkVars, mainVars,
                   attempted, total_size, n, openFiles, mkdirs, disk, finished>>

\* resp is a local that nothing closes: once the frame is gone the stream
\* is closed if and when the runtime finalizes the object
Dropped(gc) == IF gc THEN openResps \ {i} ELSE openResps

\* open(fname, 'wb'): truncates or creates the file
DlOpen ==
    /\ pc = "dl_open"
    /\ \/ /\ Caught("open")
          /\ \E gc \in BOOLEAN : openResps' = Dropped(gc)
          /\ UNCHANGED <<openFiles, disk>>
       \/ /\ openFiles' = openFiles \cup {i}
          /\ disk' = [q \in DOMAIN disk \cup {RelPath} |->
                        IF q = RelPath
                        THEN [body |-> IF resp.status = 200 THEN "file" ELSE "error page",
                              len |-> 0]
                        ELSE disk[q]]
          /\ pc' = "dl_chunk"
          /\ UNCHANGED <<i, resp, openResps, errLog, failures>>
    /\ UNCHANGED <<caller, tree, pattern_given, match_pattern, exc, walkVars, mainVars,
                   attempted, dlReqs, total_size, n, mkdirs, finished, stable, statuses>>

\* one pass of "for data in resp.iter_content(chunk_size=1024)":
\* the body is exhausted (the with block closes the file, the connection
\* goes back to the pool), or reading raises (the library closes the
\* stream), or file.write raises, or the chunk is written and accounted
\* the progress bar advanced by the size asked of iter_content
WriteSizeAsked(remaining) == ChunkSize

\* the length of the next chunk, which file.write returns once written
WriteSize(remaining) == Min(ChunkSize, remaining)

DlChunk ==
    /\ pc = "dl_chunk"
    /\ IF resp.remaining = 0
       THEN /\ openFiles' = openFiles \ {i}
            /\ openResps' = openResps \ {i}
            /\ i' = i + 1
            /\ resp' = None
            /\ pc' = "dl_loop"
            /\ UNCHANGED <<n, disk, errLog, failures>>
       ELSE \/ /\ Caught("read")
               /\ openFiles' = openFiles \ {i}
               /\ openResps' = openResps \ {i}
               /\ UNCHANGED <<n, disk>>
            \/ /\ Caught("write")
               /\ openFiles' = openFiles \ {i}
               /\ \E gc \in BOOLEAN : openResps' = Dropped(gc)
               /\ UNCHANGED <<n, disk>>
            \/ LET size == WriteSize(resp.remaining) IN
               /\ disk' = [disk EXCEPT ![RelPath].len = @ + size]
               /\ n' = n + size
               /\ resp' = [resp EXCEPT !.remaining = @ - size]
               /\ UNCHANGED <<pc, i, openResps, openFiles, errLog, failures>>
    /\ UNCHANGED <<caller, tree, pattern_given, match_pattern, exc, walkVars, mainVars,
                   attempted, dlReqs, total_size, mkdirs, finished, stable, statuses>>

Next ==
    \/ GetShareKey
    \/ VerifyPassword
    \/ DfsList
    \/ DfsStep
    \/ DfsReturn
    \/ Confirm
    \/ DlNext
    \/ DlGet
    \/ DlOpen
    \/ DlChunk

Spec == Init /\ [][Next]_vars


(***************************************************************************)
(* Vocabulary of the properties.                                           *)
(***************************************************************************)
Range(l) == {l[j] : j \in 1..Len(l)}

DlStages == {"dl_loop", "dl_get", "dl_open", "dl_chunk"}

\* main holds the manifest: the walk returned and the list is sorted
Enumerated == pc \in {"confirm", "done"} \cup DlStages

\* the files of the tree that pattern selects, by glob semantics
Matching(t, pattern) ==
    {e \in FilesOf(t) : pattern = None \/ fnmatch(Tail(e.file_path), pattern)}

\* every list of files the walk holds: the result and the partial lists
Collected == Range(filelist) \cup UNION {Range(stack[j].filelist) : j \in 1..Len(stack)}

FailedAt(kinds) == {f.pos : f \in {g \in failures : g.kind \in kinds}}

(***************************************************************************)
(* C1.  If opening or reading the stream of file i raises, the error is    *)
(* logged, every later file is still attempted, and "Download finished."   *)
(* is logged after the last file however many files failed.                *)
(* Stated as an invariant of the ended run; os.makedirs of a later file    *)
(* (see C7) ends the run without the notice.                               *)
(***************************************************************************)
C1_StreamErrorIsolated ==
    \A p \in FailedAt({"get", "read"}) :
        /\ p \in errLog
        /\ pc \in {"done", "failed"} =>
              /\ \A q \in (p + 1)..Len(filelist) : q \in attempted
              /\ finished

(***************************************************************************)
(* C2.  The list built by the walker never holds a folder entry, and never *)
(* a file whose path without its leading slash fails the glob match        *)
(* against the pattern.                                                    *)
(***************************************************************************)
C2_OnlyMatchingFiles ==
    \A e \in Collected :
        /\ ~e.is_dir
        /\ Head(e.file_path) = "/"
        /\ match_pattern # None => fnmatch(Tail(e.file_path), match_pattern)

\* the walk ended having kept some files and filtered out others
C2_Witness ==
    /\ pc = "walked"
    /\ match_pattern # None
    /\ filelist # <<>>
    /\ Range(filelist) # FilesOf(tree)

(***************************************************************************)
(* C3.  A rejected password ends the run before any listing request; a     *)
(* failed listing of any folder ends the run with no manifest shown, no    *)
(* confirmation asked and nothing downloaded.                              *)
(***************************************************************************)
C3_EarlyErrorsAbort ==
    /\ 0 \in FailedAt({"password"}) =>
          /\ pc = "failed"
          /\ listReqs = <<>>
    /\ 0 \in FailedAt({"listing"}) =>
          /\ pc = "failed"
          /\ stack = <<>>
          /\ filelist = <<>>
          /\ ~shown
          /\ ~asked
          /\ attempted = {}
          /\ dlReqs = {}
          /\ DOMAIN disk = {}

\* the listing of a folder below the root failed
C3_Witness ==
    /\ caller = "main"
    /\ 0 \in FailedAt({"listing"})
    /\ Len(listReqs) >= 2

(***************************************************************************)
(* C4.  The download stage is entered only after the operator approved a   *)
(* non-empty manifest: with an empty manifest or any other answer the run  *)
(* ends without a download request, a local file or a local directory.     *)
(***************************************************************************)
C4_DownloadOnlyAfterApproval ==
    /\ (pc \in DlStages \/ attempted # {} \/ dlReqs # {} \/ mkdirs # {}
            \/ DOMAIN disk # {} \/ finished) =>
          /\ shown
          /\ asked
          /\ key = "y"
          /\ filelist # <<>>
    /\ (caller = "main" /\ pc = "done" /\ (filelist = <<>> \/ key # "y")) =>
          /\ dlReqs = {}
          /\ mkdirs = {}
          /\ DOMAIN disk = {}

\* the operator answered something else than "y" and the run ended
C4_Witness ==
    /\ pc = "done"
    /\ asked
    /\ key = "Y"
    /\ dlReqs = {}

(***************************************************************************)
(* C5.  Without --pattern the manifest main builds holds every file of     *)
(* the remote tree, whatever its name.                                     *)
(***************************************************************************)
C5_DefaultMatchesEveryFile ==
    (caller = "main" /\ ~pattern_given /\ Enumerated) =>
        Range(filelist) = FilesOf(tree)

(***************************************************************************)
(* C6.  During download total_size is the sum of the manifest's sizes and  *)
(* does not change, the accounted bytes never decrease, and while every    *)
(* streamed body has its listed size they never exceed total_size.         *)
(***************************************************************************)
C6_ProgressAccounting ==
    /\ [](pc \in DlStages => total_size = SumSizes(filelist))
    /\ [][n' >= n /\ (pc \in DlStages => total_size' = total_size)]_vars
    /\ [](stable => n <= total_size)

\* a finished run in which a file failed midway and bytes were accounted
C6_Witness ==
    /\ finished
    /\ stable
    /\ errLog # {}
    /\ n > ChunkSize
    /\ n < total_size

(***************************************************************************)
(* C7.  A local I/O failure for one file, in creating its parent           *)
(* directories or in writing a chunk, is logged and skips that file only:  *)
(* the batch is never halted.                                              *)
(***************************************************************************)
C7_LocalIOIsolated ==
    \A p \in FailedAt({"makedirs", "open", "write"}) :
        /\ p \in errLog
        /\ pc # "failed"

(***************************************************************************)
(* C8.  A non-success HTTP status makes the opening of the stream fail:    *)
(* the file is logged as failed and skipped, and the body of that answer   *)
(* is never written to the destination file.                               *)
(***************************************************************************)
C8_NonSuccessIsTransferError ==
    /\ \A a \in statuses :
          (a.status # 200 /\ (a.pos < i \/ pc = "done")) => a.pos \in errLog
    /\ \A q \in DOMAIN disk :
          ~(disk[q].body = "error page" /\ disk[q].len > 0)

(***************************************************************************)
(* C9.  When the loop moves on to the next manifest entry, and at          *)
(* completion, the file handle and the response stream of the previous     *)
(* entry are both closed, on the success path and on every failure path.   *)
(***************************************************************************)
C9_ResourcesScopedPerFile ==
    pc \in {"dl_loop", "done"} => (openFiles = {} /\ openResps = {})

(***************************************************************************)
(* C10.  On a finite acyclic tree the walk ends; it sends at most one      *)
(* listing request per folder and a folder's request after its parent's;   *)
(* when all listings succeeded it has sent exactly one per folder and      *)
(* returns each matching file exactly once.                                *)
(***************************************************************************)
Listed(j) == unquote(listReqs[j])

C10_WalkState ==
    /\ \A j, m \in 1..Len(listReqs) : listReqs[j] = listReqs[m] => j = m
    /\ \A j \in 1..Len(listReqs) :
          /\ Listed(j) \in DOMAIN tree
          /\ Listed(j) # Root =>
                \E m \in 1..(j - 1) :
                    \E e \in Range(tree[Listed(m)]) : e.is_dir /\ e.folder_path = Listed(j)
    /\ pc = "walked" =>
          /\ {Listed(j) : j \in 1..Len(listReqs)} = DOMAIN tree
          /\ Range(filelist) = Matching(tree, match_pattern)
          /\ Len(filelist) = Cardinality(Matching(tree, match_pattern))

C10_WalkTerminatesExactlyOnce ==
    /\ []C10_WalkState
    /\ <>(pc \in {"walked", "failed"})

\* a walk through nested folders returned files
C10_Witness ==
    /\ pc = "walked"
    /\ Len(listReqs) >= 3
    /\ filelist # <<>>

====
